---- MODULE Spec2Model ----
(***************************************************************************)
(* Knowledge Base Platform: the documents router (backend/routes/          *)
(* documents.js), the search route and the registration route, running     *)
(* against the relational store of the migration.                          *)
(* Every request handler is a sequence of awaited store statements; each   *)
(* statement is one atomic action and other requests may run between two   *)
(* statements of the same handler.                                         *)
(***************************************************************************)
EXTENDS Integers, Sequences, FiniteSets, TLC

\* ---------------------------------------------------------------- bounds
NumUsers == 2
MaxDocs == 1
NumProcs == 2
MaxUpdates == 3
MaxHits == 22
MaxTime == 3
MaxResets == 2
\* the life of a reset token, 3600 s in the code, in ticks of the clock
ResetLifetime == 2

Users == 1..NumUsers
Anon == 0
DocIds == 1..MaxDocs
Procs == 1..NumProcs

\* request payload values
Titles == {"T1", "T2"}
Contents == {"", "a"}
UnknownEmail == NumUsers + 1
NoEmail == 0
Passwords == {"", "pw", "secret1", "secret2"}
Permissions == {"view", "edit"}
Queries == {"", "a", "t1", "T2", "__"}

VARIABLES users, documents, recency, document_shares, document_versions, nextId,
          pc, req, document, resp, wrote, accepted, overlapped,
          password_resets, now, outbox, changed, session

vars == <<users, documents, recency, document_shares, document_versions, nextId,
          pc, req, document, resp, wrote, accepted, overlapped,
          password_resets, now, outbox, changed, session>>

\* the password_resets table, the clock, the e-mails sent, the number of
\* password updates applied per reset token, and the user the browser holds
\* a token of
authAndClient == <<password_resets, now, outbox, changed, session>>

\* the tables; recency is the order of the documents by updated_at, the
\* most recently written first
store == <<users, documents, recency, document_shares, document_versions>>

\* ---------------------------------------------------------------- rows
NoDoc == [id |-> 0, title |-> "", content |-> "", is_public |-> FALSE,
          author_id |-> 0, version |-> 0]

NoReq == [op |-> "none", user |-> 0, id |-> 0, fields |-> {}, title |-> "",
          content |-> "", isPublic |-> FALSE, userEmail |-> 0,
          permission |-> "", userId |-> 0, q |-> "", email |-> 0,
          password |-> "", token |-> <<>>, client |-> FALSE]

\* the answer the server has just sent (NoResp when its last step sent none):
\* the request it answers, the status and the shape of the body; ids are the
\* documents of a list, in its order; removed is the number of rows the
\* closing DELETE statement removed (known to the store, not sent)
NoResp == [op |-> "none", user |-> 0, id |-> 0, status |-> 0, error |-> "",
           body |-> "", userPermission |-> "", q |-> "", ids |-> <<>>,
           removed |-> 0, email |-> 0, client |-> FALSE]

NoWrote == [documents |-> FALSE, shares |-> FALSE, versions |-> 0]

\* .from('documents').select().eq('id', id)
DocRows(id) == {r \in documents : r.id = id}

\* .single(): the row when exactly one matches, otherwise null (with an error)
SingleDoc(id) == IF Cardinality(DocRows(id)) = 1 THEN CHOOSE r \in DocRows(id) : TRUE ELSE NoDoc

\* .from('document_shares').select('permission').eq('document_id').eq('user_id')
ShareRows(id, u) == {s \in document_shares : s.document_id = id /\ s.user_id = u}

SinglePermission(id, u) ==
    IF Cardinality(ShareRows(id, u)) = 1
    THEN (CHOOSE s \in ShareRows(id, u) : TRUE).permission
    ELSE ""

\* rows of document_versions of one document, in insertion order
VersionsOf(id) == SelectSeq(document_versions, LAMBDA v : v.document_id = id)

\* ---------------------------------------------------------------- replies
\* res.status(status).json({ error })
Reply(r, status, error) ==
    [NoResp EXCEPT !.op = r.op, !.user = r.user, !.id = r.id, !.status = status,
                   !.error = error, !.body = "error", !.q = r.q, !.email = r.email,
                   !.client = r.client]

\* res.status(status).json(document), with userPermission when it is attached
ReplyDoc(r, status, perm) ==
    [NoResp EXCEPT !.op = r.op, !.user = r.user, !.id = r.id, !.status = status,
                   !.body = "document", !.userPermission = perm, !.q = r.q,
                   !.client = r.client]

\* res.json({ message }) and the other bodies that carry no document
ReplyBody(r, body, perm) ==
    [NoResp EXCEPT !.op = r.op, !.user = r.user, !.id = r.id, !.status = 200,
                   !.body = body, !.userPermission = perm, !.q = r.q,
                   !.email = r.email, !.client = r.client]

\* the handler returns: the answer is sent and the request's locals are gone
Done(p, r) ==
    /\ pc' = [pc EXCEPT ![p] = "idle"]
    /\ resp' = r
    /\ req' = [req EXCEPT ![p] = NoReq]
    /\ document' = [document EXCEPT ![p] = NoDoc]
    /\ wrote' = [wrote EXCEPT ![p] = NoWrote]

\* the handler awaits its next statement
Goto(p, label, r, d, w) ==
    /\ pc' = [pc EXCEPT ![p] = label]
    /\ resp' = NoResp
    /\ req' = [req EXCEPT ![p] = r]
    /\ document' = [document EXCEPT ![p] = d]
    /\ wrote' = [wrote EXCEPT ![p] = w]

\* .select('author_id'), .select('author_id, title, content, version')
Columns(d, cols) ==
    [NoDoc EXCEPT !.id = IF d = NoDoc THEN 0 ELSE d.id,
                  !.author_id = d.author_id,
                  !.title = IF "title" \in cols THEN d.title ELSE @,
                  !.content = IF "content" \in cols THEN d.content ELSE @,
                  !.is_public = IF "is_public" \in cols THEN d.is_public ELSE @,
                  !.version = IF "version" \in cols THEN d.version ELSE @]

\* ---------------------------------------------------------------- schemas
\* z.string().min(1).max(200)
ValidTitle(t) == t # ""

\* updateDocumentSchema: every field optional, title non-empty when present
Body(f, t, c, b) ==
    [NoReq EXCEPT !.fields = f,
                  !.title = IF "title" \in f THEN t ELSE @,
                  !.content = IF "content" \in f THEN c ELSE @,
                  !.isPublic = IF "isPublic" \in f THEN b ELSE @]

\* the request bodies tried: every combination of title and content, present
\* or absent; isPublic alone and with the other fields; one invalid title
UpdateBodies ==
    {Body(f, t, c, FALSE) : f \in SUBSET {"title", "content"}, t \in Titles, c \in Contents}
    \cup {Body({"isPublic"}, "", "", b) : b \in BOOLEAN}
    \cup {Body({"title", "content", "isPublic"}, t, "a", TRUE) : t \in Titles}
    \cup {Body({"title"}, "", "", FALSE)}

CreateBodies ==
    {Body({"title", "content", "isPublic"}, "T1", c, b) : c \in Contents, b \in BOOLEAN}
    \cup {Body({"title", "content", "isPublic"}, "", "", FALSE)}

\* {userEmail, permission}: every user and an unknown address with every
\* permission, a missing address, a permission outside the two
ShareBodies ==
    {[NoReq EXCEPT !.userEmail = e, !.permission = perm] :
        e \in Users \cup {UnknownEmail}, perm \in Permissions}
    \cup {[NoReq EXCEPT !.userEmail = NoEmail, !.permission = "view"],
          [NoReq EXCEPT !.userEmail = 1, !.permission = "admin"]}

updateDocumentSchema(r) == "title" \in r.fields => ValidTitle(r.title)

createDocumentSchema(r) == ValidTitle(r.title)

\* password.length
length(pw) == CASE pw = "" -> 0 [] pw = "pw" -> 2 [] OTHER -> 7

\* bcrypt.hash(password, 12) and bcrypt.compare(password, hash)
bcrypt_hash(pw) == <<"bcrypt", pw>>

bcrypt_compare(pw, h) == h = <<"bcrypt", pw>>

\* a row of users; user u registered with the address u and a password of
\* their own, and has not logged in
UserRow(id, e, pw) == [id |-> id, email |-> e, password |-> bcrypt_hash(pw), last_login |-> 0]

InitialUsers == {UserRow(u, u, "secret1") : u \in Users}

\* no reset was asked for, nothing was mailed, the browser holds no token
NoAuth ==
    /\ password_resets = <<>>
    /\ now = 1
    /\ outbox = {}
    /\ changed = <<>>
    /\ session = Anon

Init ==
    /\ users = InitialUsers
    /\ NoAuth
    /\ documents = {}
    /\ recency = <<>>
    /\ document_shares = {}
    /\ document_versions = <<>>
    /\ nextId = 1
    /\ pc = [p \in Procs |-> "idle"]
    /\ req = [p \in Procs |-> NoReq]
    /\ document = [p \in Procs |-> NoDoc]
    /\ resp = NoResp
    /\ wrote = [p \in Procs |-> NoWrote]
    /\ accepted = [d \in DocIds |-> 0]
    /\ overlapped = [d \in DocIds |-> FALSE]

\* ---------------------------------------------------------------- GET /:id
\* the handler up to its first answer or its second statement, for request r
GetById(p, r) ==
    LET d == SingleDoc(r.id)
    IN IF d = NoDoc THEN Done(p, Reply(r, 404, "Document not found"))
       ELSE IF d.is_public THEN Done(p, ReplyDoc(r, 200, ""))
       ELSE IF r.user = Anon THEN Done(p, Reply(r, 401, "Authentication required"))
       ELSE IF d.author_id = r.user THEN Done(p, ReplyDoc(r, 200, ""))
       ELSE Goto(p, "get_share", r, d, NoWrote)

GetDocument(p) ==
    /\ pc[p] = "idle"
    /\ \E u \in Users \cup {Anon}, id \in DocIds :
        GetById(p, [NoReq EXCEPT !.op = "get", !.user = u, !.id = id])
    /\ UNCHANGED <<authAndClient, store, nextId, accepted, overlapped>>

\* variant: the result of the share lookup is not tested
GetDocumentShare_Unchecked(p) ==
    /\ pc[p] = "get_share"
    /\ Done(p, ReplyDoc(req[p], 200, SinglePermission(req[p].id, req[p].user)))
    /\ UNCHANGED <<authAndClient, store, nextId, accepted, overlapped>>

GetDocumentShare(p) ==
    /\ pc[p] = "get_share"
    /\ LET perm == SinglePermission(req[p].id, req[p].user)
       IN IF perm = "" THEN Done(p, Reply(req[p], 403, "Access denied"))
          ELSE Done(p, ReplyDoc(req[p], 200, perm))
    /\ UNCHANGED <<authAndClient, store, nextId, accepted, overlapped>>

\* ---------------------------------------------------------------- POST /
\* users are interchangeable: the k-th document is created by one of the
\* first k users
Creators(k) == {u \in Users : u <= k}

CreateDocument(p) ==
    /\ pc[p] = "idle"
    /\ \E u \in Creators(nextId), body \in CreateBodies :
        LET r == [body EXCEPT !.op = "create", !.user = u]
        IN IF ~createDocumentSchema(r)
           THEN /\ Done(p, Reply(r, 400, "Invalid input"))
                /\ UNCHANGED <<documents, recency, nextId>>
           ELSE /\ nextId <= MaxDocs
                /\ LET row == [id |-> nextId, title |-> r.title, content |-> r.content,
                               is_public |-> r.isPublic, author_id |-> u, version |-> 1]
                   IN /\ documents' = documents \cup {row}
                      /\ recency' = <<nextId>> \o recency
                      /\ Goto(p, "create_version", [r EXCEPT !.id = nextId], NoDoc,
                              [NoWrote EXCEPT !.documents = TRUE])
                /\ nextId' = nextId + 1
    /\ UNCHANGED <<authAndClient, users, document_shares, document_versions, accepted, overlapped>>

\* variant: document_versions.document_id without REFERENCES documents(id)
InsertVersion_NoForeignKey(id, t, c, n, u, summary) ==
    Append(document_versions,
           [document_id |-> id, version_number |-> n, title |-> t,
            content |-> c, created_by |-> u, change_summary |-> summary])

\* insert of a snapshot; a row whose document is gone violates the foreign key
InsertVersion(id, t, c, n, u, summary) ==
    IF DocRows(id) = {} THEN document_versions
    ELSE Append(document_versions,
                [document_id |-> id, version_number |-> n, title |-> t,
                 content |-> c, created_by |-> u, change_summary |-> summary])

CreateVersion(p) ==
    /\ pc[p] = "create_version"
    /\ document_versions' = InsertVersion(req[p].id, req[p].title, req[p].content,
                                          1, req[p].user, "Initial version")
    /\ Done(p, ReplyDoc(req[p], 201, ""))
    /\ UNCHANGED <<authAndClient, users, documents, recency, document_shares, nextId, accepted, overlapped>>

\* ---------------------------------------------------------------- PUT /:id
\* hasEditPermission = share && share.permission === 'edit'
HasEditShare(perm) == perm = "edit"

\* the update requests on a document that have read it and not yet answered
InFlight(id) == {q \in Procs : pc[q] \in {"put_share", "put_update", "put_version"}
                               /\ req[q].id = id}

UpdateDocument(p) ==
    /\ pc[p] = "idle"
    /\ \E u \in Users, id \in DocIds, b \in UpdateBodies :
        LET r == [b EXCEPT !.op = "update", !.user = u, !.id = id]
            d == SingleDoc(id)
        IN /\ accepted[id] + Cardinality(InFlight(id)) < MaxUpdates
           /\ IF ~updateDocumentSchema(r)
              THEN /\ Done(p, Reply(r, 400, "Invalid input"))
                   /\ UNCHANGED overlapped
              ELSE IF d = NoDoc
              THEN /\ Done(p, Reply(r, 404, "Document not found"))
                   /\ UNCHANGED overlapped
              ELSE /\ Goto(p, IF d.author_id = u THEN "put_update" ELSE "put_share", r,
                           Columns(d, {"title", "content", "version"}), NoWrote)
                   /\ overlapped' = [overlapped EXCEPT ![id] = @ \/ InFlight(id) # {}]
    /\ UNCHANGED <<authAndClient, store, nextId, accepted>>

UpdateShare(p) ==
    /\ pc[p] = "put_share"
    /\ IF HasEditShare(SinglePermission(req[p].id, req[p].user))
       THEN Goto(p, "put_update", req[p], document[p], wrote[p])
       ELSE Done(p, Reply(req[p], 403, "Edit permission required"))
    /\ UNCHANGED <<authAndClient, store, nextId, accepted, overlapped>>

\* the columns the UPDATE statement names: the keys of the parsed body, as
\* they are spelled there, plus updated_at and version
UpdateColumns(r) == r.fields \cup {"version"}

DocumentColumns == {"id", "title", "content", "is_public", "author_id", "version"}

\* variant: version: document.version
UpdatedRow_SameVersion(row, r, old) ==
    [row EXCEPT !.title = IF "title" \in r.fields THEN r.title ELSE @,
                !.content = IF "content" \in r.fields THEN r.content ELSE @,
                !.version = old.version]

\* the row after .update({...updates, version: document.version + 1})
UpdatedRow(row, r, old) ==
    [row EXCEPT !.title = IF "title" \in r.fields THEN r.title ELSE @,
                !.content = IF "content" \in r.fields THEN r.content ELSE @,
                !.version = old.version + 1]

\* updates.content && updates.content !== document.content
ContentChanged(r, old) ==
    /\ "content" \in r.fields
    /\ r.content # ""
    /\ r.content # old.content

UpdateWrite(p) ==
    /\ pc[p] = "put_update"
    /\ LET r == req[p]
           rows == DocRows(r.id)
       IN IF ~(UpdateColumns(r) \subseteq DocumentColumns) \/ Cardinality(rows) # 1
          THEN \* unknown column, or no row for .single(): the error is thrown
               /\ Done(p, Reply(r, 500, "Failed to update document"))
               /\ UNCHANGED <<documents, recency, accepted>>
          ELSE LET row == CHOOSE x \in rows : TRUE
               IN /\ documents' = (documents \ {row}) \cup {UpdatedRow(row, r, document[p])}
                  /\ recency' = <<r.id>> \o SelectSeq(recency, LAMBDA i : i # r.id)
                  /\ IF ContentChanged(r, document[p])
                     THEN /\ Goto(p, "put_version", r, document[p],
                                  [wrote[p] EXCEPT !.documents = TRUE])
                          /\ UNCHANGED accepted
                     ELSE /\ Done(p, ReplyDoc(r, 200, ""))
                          /\ accepted' = [accepted EXCEPT ![r.id] = @ + 1]
    /\ UNCHANGED <<authAndClient, users, document_shares, document_versions, nextId, overlapped>>

\* variant: created_by: document.author_id
UpdateVersion_ByAuthor(p) ==
    /\ pc[p] = "put_version"
    /\ LET r == req[p]
           old == document[p]
       IN document_versions' =
            InsertVersion(r.id, IF "title" \in r.fields THEN r.title ELSE old.title,
                          r.content, old.version + 1, old.author_id, "Content updated")
    /\ Done(p, ReplyDoc(req[p], 200, ""))
    /\ accepted' = [accepted EXCEPT ![req[p].id] = @ + 1]
    /\ UNCHANGED <<authAndClient, users, documents, recency, document_shares, nextId, overlapped>>

UpdateVersion(p) ==
    /\ pc[p] = "put_version"
    /\ LET r == req[p]
           old == document[p]
       IN document_versions' =
            InsertVersion(r.id, IF "title" \in r.fields THEN r.title ELSE old.title,
                          r.content, old.version + 1, r.user, "Content updated")
    /\ Done(p, ReplyDoc(req[p], 200, ""))
    /\ accepted' = [accepted EXCEPT ![req[p].id] = @ + 1]
    /\ UNCHANGED <<authAndClient, users, documents, recency, document_shares, nextId, overlapped>>

\* ---------------------------------------------------------------- DELETE /:id
\* variant: the holder of an edit share passes the ownership check
DeleteDocument_Editors(p) ==
    /\ pc[p] = "idle"
    /\ \E u \in Users, id \in DocIds :
        LET r == [NoReq EXCEPT !.op = "delete", !.user = u, !.id = id]
            d == SingleDoc(id)
        IN IF d = NoDoc THEN Done(p, Reply(r, 404, "Document not found"))
           ELSE IF d.author_id # u /\ ~HasEditShare(SinglePermission(id, u))
           THEN Done(p, Reply(r, 403, "Only the author can delete this document"))
           ELSE Goto(p, "delete_row", r, Columns(d, {}), NoWrote)
    /\ UNCHANGED <<authAndClient, store, nextId, accepted, overlapped>>

DeleteDocument(p) ==
    /\ pc[p] = "idle"
    /\ \E u \in Users, id \in DocIds :
        LET r == [NoReq EXCEPT !.op = "delete", !.user = u, !.id = id]
            d == SingleDoc(id)
        IN IF d = NoDoc THEN Done(p, Reply(r, 404, "Document not found"))
           ELSE IF d.author_id # u
           THEN Done(p, Reply(r, 403, "Only the author can delete this document"))
           ELSE Goto(p, "delete_row", r, Columns(d, {}), NoWrote)
    /\ UNCHANGED <<authAndClient, store, nextId, accepted, overlapped>>

\* ON DELETE CASCADE on document_shares.document_id and document_versions.document_id
DeleteRow(p) ==
    /\ pc[p] = "delete_row"
    /\ LET id == req[p].id
       IN /\ documents' = documents \ DocRows(id)
          /\ recency' = SelectSeq(recency, LAMBDA i : i # id)
          /\ document_shares' = {s \in document_shares : s.document_id # id}
          /\ document_versions' = SelectSeq(document_versions, LAMBDA v : v.document_id # id)
    /\ Done(p, ReplyBody(req[p], "message", ""))
    /\ UNCHANGED <<authAndClient, users, nextId, accepted, overlapped>>

\* ---------------------------------------------------------------- POST /:id/share
\* !userEmail || !['view', 'edit'].includes(permission)
ValidShareInput(r) == r.userEmail # NoEmail /\ r.permission \in Permissions

\* .from('users').select().eq('email', userEmail).single()
UserByEmail(e) ==
    IF Cardinality({w \in users : w.email = e}) = 1
    THEN (CHOOSE w \in users : w.email = e).id
    ELSE 0

ShareDocument(p) ==
    /\ pc[p] = "idle"
    /\ \E u \in Users, id \in DocIds, body \in ShareBodies :
        LET r == [body EXCEPT !.op = "share", !.user = u, !.id = id]
            d == SingleDoc(id)
        IN IF ~ValidShareInput(r) THEN Done(p, Reply(r, 400, "Invalid input"))
           ELSE IF d = NoDoc THEN Done(p, Reply(r, 404, "Document not found"))
           ELSE IF d.author_id # u
           THEN Done(p, Reply(r, 403, "Only the author can share this document"))
           ELSE Goto(p, "share_user", r, Columns(d, {}), NoWrote)
    /\ UNCHANGED <<authAndClient, store, nextId, accepted, overlapped>>

ShareUser(p) ==
    /\ pc[p] = "share_user"
    /\ LET target == UserByEmail(req[p].userEmail)
       IN IF target = 0 THEN Done(p, Reply(req[p], 404, "User not found"))
          ELSE Goto(p, "share_upsert", [req[p] EXCEPT !.userId = target],
                    document[p], wrote[p])
    /\ UNCHANGED <<authAndClient, store, nextId, accepted, overlapped>>

\* .upsert(row) without onConflict resolves conflicts on the primary key only.
\* The row carries no id, so it is always a fresh row: it is inserted unless
\* it violates UNIQUE(document_id, user_id) or the foreign key to documents.
UpsertFails(id, u) == DocRows(id) = {} \/ ShareRows(id, u) # {}

ShareUpsert(p) ==
    /\ pc[p] = "share_upsert"
    /\ LET r == req[p]
       IN IF UpsertFails(r.id, r.userId)
          THEN /\ Done(p, Reply(r, 500, "Failed to share document"))
               /\ UNCHANGED document_shares
          ELSE /\ document_shares' = document_shares \cup
                    {[document_id |-> r.id, user_id |-> r.userId,
                      permission |-> r.permission, shared_by |-> r.user]}
               /\ Done(p, ReplyBody(r, "share", r.permission))
    /\ UNCHANGED <<authAndClient, users, documents, recency, document_versions, nextId, accepted, overlapped>>

\* ---------------------------------------------------------------- GET /:id/shares
ListShares(p) ==
    /\ pc[p] = "idle"
    /\ \E u \in Users, id \in DocIds :
        LET r == [NoReq EXCEPT !.op = "shares", !.user = u, !.id = id]
            d == SingleDoc(id)
        IN IF d = NoDoc THEN Done(p, Reply(r, 404, "Document not found"))
           ELSE IF d.author_id # u
           THEN Done(p, Reply(r, 403, "Only the author can view shares"))
           ELSE Goto(p, "shares_select", r, Columns(d, {}), NoWrote)
    /\ UNCHANGED <<authAndClient, store, nextId, accepted, overlapped>>

SharesSelect(p) ==
    /\ pc[p] = "shares_select"
    /\ Done(p, ReplyBody(req[p], "shares", ""))
    /\ UNCHANGED <<authAndClient, store, nextId, accepted, overlapped>>

\* ---------------------------------------------------------------- DELETE /:id/shares/:userId
\* variant: the share row is deleted before the ownership check
RevokeShare_DeleteFirst(p) ==
    /\ pc[p] = "idle"
    /\ \E u \in Users, id \in DocIds, target \in Users :
        LET r == [NoReq EXCEPT !.op = "revoke", !.user = u, !.id = id, !.userId = target]
            d == SingleDoc(id)
        IN /\ document_shares' = document_shares \ ShareRows(id, target)
           /\ IF d = NoDoc THEN Done(p, Reply(r, 404, "Document not found"))
              ELSE IF d.author_id # u
              THEN Done(p, Reply(r, 403, "Only the author can remove shares"))
              ELSE Goto(p, "revoke_delete", r, Columns(d, {}), NoWrote)
    /\ UNCHANGED <<authAndClient, users, documents, recency, document_versions, nextId, accepted, overlapped>>

RevokeShare(p) ==
    /\ pc[p] = "idle"
    /\ \E u \in Users, id \in DocIds, target \in Users :
        LET r == [NoReq EXCEPT !.op = "revoke", !.user = u, !.id = id, !.userId = target]
            d == SingleDoc(id)
        IN IF d = NoDoc THEN Done(p, Reply(r, 404, "Document not found"))
           ELSE IF d.author_id # u
           THEN Done(p, Reply(r, 403, "Only the author can remove shares"))
           ELSE Goto(p, "revoke_delete", r, Columns(d, {}), NoWrote)
    /\ UNCHANGED <<authAndClient, store, nextId, accepted, overlapped>>

\* variant: a revoke that finds no row to delete is answered 404
RevokeDelete_Strict(p) ==
    /\ pc[p] = "revoke_delete"
    /\ document_shares' = document_shares \ ShareRows(req[p].id, req[p].userId)
    /\ IF ShareRows(req[p].id, req[p].userId) = {}
       THEN Done(p, Reply(req[p], 404, "Share not found"))
       ELSE Done(p, [ReplyBody(req[p], "message", "") EXCEPT !.removed = 1])
    /\ UNCHANGED <<authAndClient, users, documents, recency, document_versions, nextId, accepted, overlapped>>

RevokeDelete(p) ==
    /\ pc[p] = "revoke_delete"
    /\ document_shares' = document_shares \ ShareRows(req[p].id, req[p].userId)
    /\ Done(p, [ReplyBody(req[p], "message", "") EXCEPT
                    !.removed = Cardinality(ShareRows(req[p].id, req[p].userId))])
    /\ UNCHANGED <<authAndClient, users, documents, recency, document_versions, nextId, accepted, overlapped>>

\* ---------------------------------------------------------------- GET /
\* The or() of the list and of the search names a column of the embedded
\* table (document_shares.user_id). The store either applies the condition
\* to the joined rows or rejects the logic tree; both outcomes are modelled.
EmbeddedFilter == {"applied", "rejected"}

\* documents joined to their share rows by document_shares!inner, a joined
\* row kept when author_id = u or document_shares.user_id = u; one entry
\* per document, ordered by updated_at descending
ListRows(u) ==
    SelectSeq(recency, LAMBDA i :
        \E s \in document_shares :
            s.document_id = i /\ (SingleDoc(i).author_id = u \/ s.user_id = u))

ListDocuments(p) ==
    /\ pc[p] = "idle"
    /\ \E u \in Users, outcome \in EmbeddedFilter :
        LET r == [NoReq EXCEPT !.op = "list", !.user = u]
        IN IF outcome = "rejected"
           THEN Done(p, Reply(r, 500, "Failed to fetch documents"))
           ELSE Done(p, [ReplyBody(r, "documents", "") EXCEPT !.ids = ListRows(u)])
    /\ UNCHANGED <<authAndClient, store, nextId, accepted, overlapped>>

\* ---------------------------------------------------------------- GET /:id/versions
\* authenticateToken: a request without a valid bearer token is answered 401
authenticateToken(u) == u # Anon

\* variant: hasAccess = document.author_id === req.user.id
ListVersions_AuthorOnly(p) ==
    /\ pc[p] = "idle"
    /\ \E u \in Users \cup {Anon}, id \in DocIds :
        LET r == [NoReq EXCEPT !.op = "versions", !.user = u, !.id = id]
            d == SingleDoc(id)
        IN IF ~authenticateToken(u) THEN Done(p, Reply(r, 401, "Access token required"))
           ELSE IF d = NoDoc THEN Done(p, Reply(r, 404, "Document not found"))
           ELSE IF d.author_id = u
           THEN Goto(p, "versions_select", r, Columns(d, {"is_public"}), NoWrote)
           ELSE Goto(p, "versions_share", r, Columns(d, {"is_public"}), NoWrote)
    /\ UNCHANGED <<authAndClient, store, nextId, accepted, overlapped>>

ListVersions(p) ==
    /\ pc[p] = "idle"
    /\ \E u \in Users \cup {Anon}, id \in DocIds :
        LET r == [NoReq EXCEPT !.op = "versions", !.user = u, !.id = id]
            d == SingleDoc(id)
        IN IF ~authenticateToken(u) THEN Done(p, Reply(r, 401, "Access token required"))
           ELSE IF d = NoDoc THEN Done(p, Reply(r, 404, "Document not found"))
           ELSE IF d.is_public \/ d.author_id = u
           THEN Goto(p, "versions_select", r, Columns(d, {"is_public"}), NoWrote)
           ELSE Goto(p, "versions_share", r, Columns(d, {"is_public"}), NoWrote)
    /\ UNCHANGED <<authAndClient, store, nextId, accepted, overlapped>>

\* hasAccess = !!share
VersionsShare(p) ==
    /\ pc[p] = "versions_share"
    /\ IF SinglePermission(req[p].id, req[p].user) = ""
       THEN Done(p, Reply(req[p], 403, "Access denied"))
       ELSE Goto(p, "versions_select", req[p], document[p], wrote[p])
    /\ UNCHANGED <<authAndClient, store, nextId, accepted, overlapped>>

\* the snapshots of the document, ordered by version_number descending
VersionsSelect(p) ==
    /\ pc[p] = "versions_select"
    /\ Done(p, ReplyBody(req[p], "versions", ""))
    /\ UNCHANGED <<authAndClient, store, nextId, accepted, overlapped>>

\* ---------------------------------------------------------------- GET /search
Limit == 20
MinQueryLength == 2

\* the characters of the texts and queries of the model
Chars(s) ==
    CASE s = "" -> <<>>
      [] s = "a" -> <<"a">>
      [] s = "T1" -> <<"T", "1">>
      [] s = "T2" -> <<"T", "2">>
      [] s = "t1" -> <<"t", "1">>
      [] s = "__" -> <<"_", "_">>

\* String.prototype.toLowerCase, and the case folding of ILIKE
toLowerCase(t) == [i \in 1..Len(t) |-> IF t[i] = "T" THEN "t" ELSE t[i]]

\* LIKE: _ stands for any one character, % for any run of characters
RECURSIVE Like(_, _)
Like(t, pattern) ==
    IF pattern = <<>> THEN t = <<>>
    ELSE IF Head(pattern) = "%"
    THEN Like(t, Tail(pattern)) \/ (t # <<>> /\ Like(Tail(t), pattern))
    ELSE IF t = <<>> THEN FALSE
    ELSE /\ Head(pattern) = "_" \/ Head(pattern) = Head(t)
         /\ Like(Tail(t), Tail(pattern))

\* column.ilike.%${q}%
ilike(t, q) == Like(toLowerCase(t), <<"%">> \o toLowerCase(q) \o <<"%">>)

\* and(title.ilike, or(author_id.eq.u, document_shares.user_id.eq.u,
\* is_public.eq.true)), and(content.ilike, or(...)) over documents left
\* joined to their share rows
SearchMatch(i, u, q) ==
    LET d == SingleDoc(i)
    IN /\ ilike(Chars(d.title), Chars(q)) \/ ilike(Chars(d.content), Chars(q))
       /\ d.author_id = u \/ ShareRows(i, u) # {} \/ d.is_public

\* variant: one row per joined share row, as a SQL join returns them
SearchRows_Joined(u, q) ==
    LET matched == SelectSeq(recency, LAMBDA i : SearchMatch(i, u, q))
        twice(i) == Cardinality({s \in document_shares : s.document_id = i}) > 1
        \* the n-th joined row: a document with several share rows comes twice
        joined == [n \in 1..(2 * Len(matched)) |-> matched[(n + 1) \div 2]]
        rows == SelectSeq([n \in 1..Len(joined) |-> <<n, joined[n]>>],
                          LAMBDA x : x[1] % 2 = 1 \/ twice(x[2]))
    IN [n \in 1..(IF Len(rows) < Limit THEN Len(rows) ELSE Limit) |-> rows[n][2]]

\* the rows of the select: one per document, its share rows embedded,
\* .order('updated_at', descending).limit(20)
SearchRows(u, q) ==
    LET rows == SelectSeq(recency, LAMBDA i : SearchMatch(i, u, q))
    IN SubSeq(rows, 1, IF Len(rows) < Limit THEN Len(rows) ELSE Limit)

\* documents.reduce((acc, doc) => ..., []): a row is pushed unless its id is
\* already in acc
RECURSIVE reduce(_, _)
reduce(rows, acc) ==
    IF rows = <<>> THEN acc
    ELSE reduce(Tail(rows),
                IF \E j \in 1..Len(acc) : acc[j] = Head(rows)
                THEN acc ELSE Append(acc, Head(rows)))

uniqueDocuments(rows) == reduce(rows, <<>>)

\* variant: if (!q)
Search_NoLengthGuard(p) ==
    /\ pc[p] = "idle"
    /\ \E u \in Users, q \in Queries :
        LET r == [NoReq EXCEPT !.op = "search", !.user = u, !.q = q]
        IN IF q = ""
           THEN Done(p, ReplyBody(r, "documents", ""))
           ELSE Goto(p, "search_select", r, NoDoc, NoWrote)
    /\ UNCHANGED <<authAndClient, store, nextId, accepted, overlapped>>

\* if (!q || q.length < 2) return res.json([])
Search(p) ==
    /\ pc[p] = "idle"
    /\ \E u \in Users, q \in Queries :
        LET r == [NoReq EXCEPT !.op = "search", !.user = u, !.q = q]
        IN IF q = "" \/ Len(Chars(q)) < MinQueryLength
           THEN Done(p, ReplyBody(r, "documents", ""))
           ELSE Goto(p, "search_select", r, NoDoc, NoWrote)
    /\ UNCHANGED <<authAndClient, store, nextId, accepted, overlapped>>

SearchSelect(p) ==
    /\ pc[p] = "search_select"
    /\ \E outcome \in EmbeddedFilter :
        IF outcome = "rejected"
        THEN Done(p, Reply(req[p], 500, "Search failed"))
        ELSE Done(p, [ReplyBody(req[p], "documents", "") EXCEPT
                        !.ids = uniqueDocuments(SearchRows(req[p].user, req[p].q))])
    /\ UNCHANGED <<authAndClient, store, nextId, accepted, overlapped>>

\* ---------------------------------------------------------------- POST /auth/register
\* .from('users').select('id').eq('email', email).single()
existingUser(e) == Cardinality({w \in users : w.email = e}) = 1

\* a body that registerSchema rejects (NoEmail), an address of every user of
\* the model and one more
Register(p) ==
    /\ pc[p] = "idle"
    /\ \E e \in Users \cup {UnknownEmail, NoEmail}, pw \in Passwords :
        LET r == [NoReq EXCEPT !.op = "register", !.email = e, !.password = pw]
        IN IF e = NoEmail \/ length(pw) < 6 THEN Done(p, Reply(r, 400, "Invalid input"))
           ELSE IF existingUser(e) THEN Done(p, Reply(r, 400, "User already exists"))
           ELSE Goto(p, "register_insert", r, NoDoc, NoWrote)
    /\ UNCHANGED <<authAndClient, store, nextId, accepted, overlapped>>

\* bcrypt.hash, then the insert; email TEXT UNIQUE NOT NULL rejects a second
\* row with the address and the error is thrown
RegisterInsert(p) ==
    /\ pc[p] = "register_insert"
    /\ IF \E w \in users : w.email = req[p].email
       THEN /\ Done(p, Reply(req[p], 500, "Registration failed"))
            /\ UNCHANGED users
       ELSE /\ users' = users \cup {UserRow(Cardinality(users) + 1, req[p].email,
                                             req[p].password)}
            /\ Done(p, [ReplyBody(req[p], "user", "") EXCEPT !.status = 201])
    /\ UNCHANGED <<authAndClient, documents, recency, document_shares, document_versions, nextId,
                   accepted, overlapped>>

\* ---------------------------------------------------------------- POST /auth/login
\* .from('users').select('*').eq('email', email).single()
UserRows(e) == {w \in users : w.email = e}

\* variant: an unknown address is answered 404 'User not found'
Login_UserNotFound(p) ==
    /\ pc[p] = "idle"
    /\ \E e \in Users \cup {UnknownEmail, NoEmail}, pw \in Passwords :
        LET r == [NoReq EXCEPT !.op = "login", !.email = e, !.password = pw]
        IN IF e = NoEmail \/ length(pw) < 1 THEN Done(p, Reply(r, 400, "Invalid input"))
           ELSE IF Cardinality(UserRows(e)) # 1
           THEN Done(p, Reply(r, 404, "User not found"))
           ELSE IF ~bcrypt_compare(pw, (CHOOSE w \in UserRows(e) : TRUE).password)
           THEN Done(p, Reply(r, 401, "Invalid credentials"))
           ELSE Goto(p, "login_update", [r EXCEPT !.userId = UserByEmail(e)], NoDoc, NoWrote)
    /\ UNCHANGED <<authAndClient, store, nextId, accepted, overlapped>>

\* loginSchema, the select, bcrypt.compare: both refusals are the same answer
Login(p) ==
    /\ pc[p] = "idle"
    /\ \E e \in Users \cup {UnknownEmail, NoEmail}, pw \in Passwords :
        LET r == [NoReq EXCEPT !.op = "login", !.email = e, !.password = pw]
        IN IF e = NoEmail \/ length(pw) < 1 THEN Done(p, Reply(r, 400, "Invalid input"))
           ELSE IF Cardinality(UserRows(e)) # 1
           THEN Done(p, Reply(r, 401, "Invalid credentials"))
           ELSE IF ~bcrypt_compare(pw, (CHOOSE w \in UserRows(e) : TRUE).password)
           THEN Done(p, Reply(r, 401, "Invalid credentials"))
           ELSE Goto(p, "login_update", [r EXCEPT !.userId = UserByEmail(e)], NoDoc, NoWrote)
    /\ UNCHANGED <<authAndClient, store, nextId, accepted, overlapped>>

\* .update({ last_login }).eq('id', user.id), jwt.sign, res.json({ user, token })
LoginUpdate(p) ==
    /\ pc[p] = "login_update"
    /\ users' = {IF w.id = req[p].userId THEN [w EXCEPT !.last_login = now] ELSE w : w \in users}
    /\ Done(p, ReplyBody(req[p], "session", ""))
    /\ UNCHANGED <<authAndClient, documents, recency, document_shares, document_versions,
                   nextId, accepted, overlapped>>

\* ---------------------------------------------------------------- POST /auth/forgot-password
\* jwt.sign({ userId }, JWT_SECRET, { expiresIn: '1h' }): the payload and the
\* second of issue determine the token
jwt_sign(u, iat) == <<u, iat>>

NoToken == <<>>
BadToken == <<0, 0>>

\* jwt.verify: the signature is the server's and exp has not been reached
jwt_verify(tok) == tok # BadToken /\ now < tok[2] + ResetLifetime

\* requests of the handler that have not answered yet
ForgotInFlight == Cardinality({q \in Procs : pc[q] \in {"forgot_insert", "forgot_email"}})

ForgotPassword(p) ==
    /\ pc[p] = "idle"
    /\ Len(password_resets) + Len(changed) + ForgotInFlight < MaxResets
    /\ \E e \in Users \cup {UnknownEmail, NoEmail} :
        LET r == [NoReq EXCEPT !.op = "forgot", !.email = e]
        IN IF Cardinality(UserRows(e)) # 1
           THEN Done(p, ReplyBody(r, "message", ""))
           ELSE Goto(p, "forgot_insert",
                     [r EXCEPT !.userId = UserByEmail(e),
                               !.token = jwt_sign(UserByEmail(e), now)],
                     NoDoc, NoWrote)
    /\ UNCHANGED <<authAndClient, store, nextId, accepted, overlapped>>

\* .from('password_resets').insert(...): the result is not looked at, so a
\* failed insert goes on like a successful one
ForgotInsert(p) ==
    /\ pc[p] = "forgot_insert"
    /\ \E ok \in BOOLEAN :
        password_resets' =
            IF ok THEN Append(password_resets,
                              [user_id |-> req[p].userId, token |-> req[p].token,
                               expires_at |-> req[p].token[2] + ResetLifetime])
            ELSE password_resets
    /\ Goto(p, "forgot_email", req[p], NoDoc, NoWrote)
    /\ UNCHANGED <<store, nextId, accepted, overlapped, now, outbox, changed, session>>

\* what awaiting utils/email.js can do: resolve after the mail is handed
\* over, or reject
sendPasswordResetEmail == {"sent", "rejected"}

\* await sendPasswordResetEmail(...), then res.json; a rejection is caught
ForgotEmail(p) ==
    /\ pc[p] = "forgot_email"
    /\ \E outcome \in sendPasswordResetEmail :
        IF outcome = "sent"
        THEN /\ outbox' = outbox \cup {[to |-> req[p].email, token |-> req[p].token]}
             /\ Done(p, ReplyBody(req[p], "message", ""))
        ELSE /\ UNCHANGED outbox
             /\ Done(p, Reply(req[p], 500, "Failed to process request"))
    /\ UNCHANGED <<store, nextId, accepted, overlapped, password_resets, now, changed, session>>

\* ---------------------------------------------------------------- POST /auth/reset-password
\* .from('password_resets').select('*').eq('token').eq('user_id').gte('expires_at', now)
ResetRows(tok) ==
    SelectSeq(password_resets,
              LAMBDA x : x.token = tok /\ x.user_id = tok[1] /\ x.expires_at >= now)

\* the tokens a caller can send: those that were mailed, a string that is
\* not a token of the server, and none
ResetPassword(p) ==
    /\ pc[p] = "idle"
    /\ \E tok \in {m.token : m \in outbox} \cup {BadToken, NoToken}, pw \in Passwords :
        LET r == [NoReq EXCEPT !.op = "reset", !.token = tok, !.password = pw]
        IN IF tok = NoToken \/ pw = "" \/ length(pw) < 6
           THEN Done(p, Reply(r, 400, "Invalid input"))
           ELSE IF ~jwt_verify(tok)
           THEN Done(p, Reply(r, 400, "Invalid or expired reset token"))
           ELSE IF Len(ResetRows(tok)) # 1
           THEN Done(p, Reply(r, 400, "Invalid or expired reset token"))
           ELSE Goto(p, "reset_update", [r EXCEPT !.userId = tok[1]], NoDoc, NoWrote)
    /\ UNCHANGED <<authAndClient, store, nextId, accepted, overlapped>>

\* bcrypt.hash, .from('users').update({ password }).eq('id', decoded.userId)
ResetUpdate(p) ==
    /\ pc[p] = "reset_update"
    /\ users' = {IF w.id = req[p].userId
                 THEN [w EXCEPT !.password = bcrypt_hash(req[p].password)]
                 ELSE w : w \in users}
    /\ changed' = Append(changed, req[p].token)
    /\ Goto(p, "reset_delete", req[p], NoDoc, NoWrote)
    /\ UNCHANGED <<documents, recency, document_shares, document_versions, nextId,
                   accepted, overlapped, password_resets, now, outbox, session>>

\* .from('password_resets').delete().eq('token', token), res.json({ message })
ResetDelete(p) ==
    /\ pc[p] = "reset_delete"
    /\ password_resets' = SelectSeq(password_resets, LAMBDA x : x.token # req[p].token)
    /\ Done(p, ReplyBody(req[p], "message", ""))
    /\ UNCHANGED <<store, nextId, accepted, overlapped, now, outbox, changed, session>>

\* time passes
Tick ==
    /\ now < MaxTime
    /\ now' = now + 1
    /\ UNCHANGED <<store, nextId, pc, req, document, resp, wrote, accepted, overlapped,
                   password_resets, outbox, changed, session>>

\* ---------------------------------------------------------------- the browser
\* useApi.request: the Authorization header carries the stored token only
\* when the call asks for it
Authorization(requireAuth) == IF requireAuth /\ session # Anon THEN session ELSE Anon

\* middleware/auth.js optionalAuth: req.user is the user of the token sent,
\* and is not set when no token is sent
optionalAuth(bearer) == IF bearer \in Users THEN bearer ELSE Anon

\* useAuthStore.logout: the stored token and user are dropped
logout == Anon

\* DocumentView.fetchDocument: request('/documents/:id', { requireAuth: false }),
\* answered by the first statement of the handler because no user is set;
\* useApi.request logs out on a 401
fetchDocument(p) ==
    /\ pc[p] = "idle"
    /\ \E id \in DocIds :
        GetById(p, [NoReq EXCEPT !.op = "get", !.id = id, !.client = TRUE,
                                  !.user = optionalAuth(Authorization(FALSE))])
    /\ session' = IF resp'.status = 401 THEN logout ELSE session
    /\ UNCHANGED <<store, nextId, accepted, overlapped, password_resets, now, outbox, changed>>

\* every handler of the router
Next ==
    \E p \in Procs :
        \/ GetDocument(p)
        \/ GetDocumentShare(p)
        \/ CreateDocument(p)
        \/ CreateVersion(p)
        \/ UpdateDocument(p)
        \/ UpdateShare(p)
        \/ UpdateWrite(p)
        \/ UpdateVersion(p)
        \/ DeleteDocument(p)
        \/ DeleteRow(p)
        \/ ShareDocument(p)
        \/ ShareUser(p)
        \/ ShareUpsert(p)
        \/ ListShares(p)
        \/ SharesSelect(p)
        \/ RevokeShare(p)
        \/ RevokeDelete(p)
        \/ ListDocuments(p)
        \/ ListVersions(p)
        \/ VersionsShare(p)
        \/ VersionsSelect(p)
        \/ Search(p)
        \/ SearchSelect(p)
        \/ Register(p)
        \/ RegisterInsert(p)
        \/ Login(p)
        \/ LoginUpdate(p)
        \/ ForgotPassword(p)
        \/ ForgotInsert(p)
        \/ ForgotEmail(p)
        \/ ResetPassword(p)
        \/ ResetUpdate(p)
        \/ ResetDelete(p)
        \/ (p = 1 /\ Tick)
        \/ fetchDocument(p)

Spec == Init /\ [][Next]_vars

\* the handlers that write documents.version and document_versions
NextVersions ==
    \E p \in Procs :
        \/ CreateDocument(p)
        \/ CreateVersion(p)
        \/ UpdateDocument(p)
        \/ UpdateShare(p)
        \/ UpdateWrite(p)
        \/ UpdateVersion(p)
        \/ DeleteDocument(p)
        \/ DeleteRow(p)

SpecVersions == Init /\ [][NextVersions]_vars

\* the handlers whose answer depends on ownership, visibility and shares
NextAccess ==
    \E p \in Procs :
        \/ GetDocument(p)
        \/ GetDocumentShare(p)
        \/ CreateDocument(p)
        \/ CreateVersion(p)
        \/ DeleteDocument(p)
        \/ DeleteRow(p)
        \/ ShareDocument(p)
        \/ ShareUser(p)
        \/ ShareUpsert(p)
        \/ ListShares(p)
        \/ SharesSelect(p)
        \/ RevokeShare(p)
        \/ RevokeDelete(p)
        \/ ListDocuments(p)
        \/ ListVersions(p)
        \/ VersionsShare(p)
        \/ VersionsSelect(p)

SpecAccess == Init /\ [][NextAccess]_vars

\* the search is one read of the store: it is run on every store of at most
\* one document and on stores of Limit - 1 to MaxHits documents
SearchTexts == Contents \cup {"t1"}

SmallStores ==
    {[documents |-> {}, document_shares |-> {}, recency |-> <<>>]} \cup
    {[documents |-> {[id |-> 1, title |-> t, content |-> c, is_public |-> b,
                      author_id |-> a, version |-> 1]},
      document_shares |-> {[document_id |-> 1, user_id |-> u, permission |-> "view",
                            shared_by |-> a] : u \in holders},
      recency |-> <<1>>] :
        t \in Titles, c \in SearchTexts, b \in BOOLEAN, a \in Users,
        holders \in SUBSET Users}

\* document i of a large store: every fourth is another author's, every
\* fifth is public, every third carries the text in its content too
LargeDoc(i) ==
    [id |-> i, title |-> "T1", content |-> IF i % 3 = 0 THEN "t1" ELSE "",
     is_public |-> (i % 5 = 0),
     author_id |-> IF i % 4 = 0 /\ NumUsers > 1 THEN 2 ELSE 1, version |-> 1]

\* updated_at of document i in the k-th order tried
Stamp(i, k) == (i * k) % 29

RECURSIVE ByStampDesc(_, _)
ByStampDesc(S, k) ==
    IF S = {} THEN <<>>
    ELSE LET m == CHOOSE x \in S : \A y \in S : Stamp(y, k) <= Stamp(x, k)
         IN <<m>> \o ByStampDesc(S \ {m}, k)

\* every second document is shared with every user
LargeStores ==
    {[documents |-> {LargeDoc(i) : i \in 1..n},
      document_shares |-> {[document_id |-> i, user_id |-> u, permission |-> "view",
                            shared_by |-> LargeDoc(i).author_id] :
                                i \in {j \in 1..n : j % 2 = 0}, u \in Users},
      recency |-> ByStampDesc(1..n, k)] :
        n \in (Limit - 1)..MaxHits, k \in 1..3}

InitSearch ==
    /\ users = InitialUsers
    /\ NoAuth
    /\ \E st \in SmallStores \cup LargeStores :
        /\ documents = st.documents
        /\ document_shares = st.document_shares
        /\ recency = st.recency
        /\ document_versions =
             [i \in 1..Cardinality(st.documents) |->
                LET d == CHOOSE x \in st.documents : x.id = i
                IN [document_id |-> i, version_number |-> 1, title |-> d.title,
                    content |-> d.content, created_by |-> d.author_id,
                    change_summary |-> "Initial version"]]
        /\ nextId = Cardinality(st.documents) + 1
    /\ pc = [p \in Procs |-> "idle"]
    /\ req = [p \in Procs |-> NoReq]
    /\ document = [p \in Procs |-> NoDoc]
    /\ resp = NoResp
    /\ wrote = [p \in Procs |-> NoWrote]
    /\ accepted = [d \in DocIds |-> 0]
    /\ overlapped = [d \in DocIds |-> FALSE]

NextSearch ==
    \E p \in Procs :
        \/ Search(p)
        \/ SearchSelect(p)

SpecSearch == InitSearch /\ [][NextSearch]_vars

\* registration, from the empty users table of the migration
InitRegister ==
    /\ users = {}
    /\ NoAuth
    /\ documents = {}
    /\ recency = <<>>
    /\ document_shares = {}
    /\ document_versions = <<>>
    /\ nextId = 1
    /\ pc = [p \in Procs |-> "idle"]
    /\ req = [p \in Procs |-> NoReq]
    /\ document = [p \in Procs |-> NoDoc]
    /\ resp = NoResp
    /\ wrote = [p \in Procs |-> NoWrote]
    /\ accepted = [d \in DocIds |-> 0]
    /\ overlapped = [d \in DocIds |-> FALSE]

NextRegister ==
    \E p \in Procs :
        \/ Register(p)
        \/ RegisterInsert(p)

SpecRegister == InitRegister /\ [][NextRegister]_vars

\* editing by a share holder: a private document of user 1 exists, with its
\* initial snapshot, and the last user holds a share on it
InitEdit ==
    /\ users = InitialUsers
    /\ NoAuth
    /\ \E c \in Contents, perm \in Permissions :
        /\ documents = {[id |-> 1, title |-> "T1", content |-> c, is_public |-> FALSE,
                         author_id |-> 1, version |-> 1]}
        /\ document_shares = {[document_id |-> 1, user_id |-> NumUsers,
                               permission |-> perm, shared_by |-> 1]}
        /\ document_versions = <<[document_id |-> 1, version_number |-> 1,
                                  title |-> "T1", content |-> c, created_by |-> 1,
                                  change_summary |-> "Initial version"]>>
    /\ recency = <<1>>
    /\ nextId = 2
    /\ pc = [p \in Procs |-> "idle"]
    /\ req = [p \in Procs |-> NoReq]
    /\ document = [p \in Procs |-> NoDoc]
    /\ resp = NoResp
    /\ wrote = [p \in Procs |-> NoWrote]
    /\ accepted = [d \in DocIds |-> 0]
    /\ overlapped = [d \in DocIds |-> FALSE]

NextEdit ==
    \E p \in Procs :
        \/ GetDocument(p)
        \/ GetDocumentShare(p)
        \/ UpdateDocument(p)
        \/ UpdateShare(p)
        \/ UpdateWrite(p)
        \/ UpdateVersion(p)
        \/ RevokeShare(p)
        \/ RevokeDelete(p)

SpecEdit == InitEdit /\ [][NextEdit]_vars

\* logging in while time passes
NextLogin ==
    \E p \in Procs :
        \/ Login(p)
        \/ LoginUpdate(p)
        \/ (p = 1 /\ Tick)

SpecLogin == Init /\ [][NextLogin]_vars

\* asking for reset tokens and using them while time passes
NextReset ==
    \E p \in Procs :
        \/ ForgotPassword(p)
        \/ ForgotInsert(p)
        \/ ForgotEmail(p)
        \/ ResetPassword(p)
        \/ ResetUpdate(p)
        \/ ResetDelete(p)
        \/ (p = 1 /\ Tick)

SpecReset == Init /\ [][NextReset]_vars

\* the browser of a user or of nobody opens documents while the author and
\* the share holder read the document and the share is revoked
InitClient ==
    /\ users = InitialUsers
    /\ password_resets = <<>>
    /\ now = 1
    /\ outbox = {}
    /\ changed = <<>>
    /\ session \in Users \cup {Anon}
    /\ \E public \in BOOLEAN :
        documents = {[id |-> 1, title |-> "T1", content |-> "a", is_public |-> public,
                      author_id |-> 1, version |-> 1]}
    /\ document_shares = {[document_id |-> 1, user_id |-> NumUsers,
                           permission |-> "view", shared_by |-> 1]}
    /\ document_versions = <<[document_id |-> 1, version_number |-> 1,
                              title |-> "T1", content |-> "a", created_by |-> 1,
                              change_summary |-> "Initial version"]>>
    /\ recency = <<1>>
    /\ nextId = 2
    /\ pc = [p \in Procs |-> "idle"]
    /\ req = [p \in Procs |-> NoReq]
    /\ document = [p \in Procs |-> NoDoc]
    /\ resp = NoResp
    /\ wrote = [p \in Procs |-> NoWrote]
    /\ accepted = [d \in DocIds |-> 0]
    /\ overlapped = [d \in DocIds |-> FALSE]

NextClient ==
    \E p \in Procs :
        \/ fetchDocument(p)
        \/ GetDocument(p)
        \/ GetDocumentShare(p)
        \/ RevokeShare(p)
        \/ RevokeDelete(p)

SpecClient == InitClient /\ [][NextClient]_vars

\* ---------------------------------------------------------------- properties
DocExists(d) == DocRows(d) # {}

AllIdle == \A p \in Procs : pc[p] = "idle"

\* the version_number values in the ledger of document d
VersionNumbers(d) ==
    {VersionsOf(d)[i].version_number : i \in 1..Len(VersionsOf(d))}

MaxOf(S) == CHOOSE x \in S : \A y \in S : y <= x

\* process p answers its update request with the updated document in this step
Accepts(p) ==
    /\ pc[p] \in {"put_update", "put_version"}
    /\ pc'[p] = "idle"
    /\ accepted'[req[p].id] = accepted[req[p].id] + 1

\* C1: once N updates of a document have been accepted and none is in
\* flight, the document's version equals N + 1.
C1_VersionCountsAcceptedUpdates ==
    \A d \in DocIds :
        (DocExists(d) /\ InFlight(d) = {}) => SingleDoc(d).version = accepted[d] + 1

\* C2: the stored version of a document never decreases from one state to
\* the next.
C2_VersionNeverDecreases ==
    [][\A d \in DocIds :
         (DocExists(d) /\ DocExists(d)') => SingleDoc(d)'.version >= SingleDoc(d).version]_vars

C4_VersionNumbersIncrease ==
    \A d \in DocIds :
        \A i, j \in 1..Len(VersionsOf(d)) :
            i < j => VersionsOf(d)[i].version_number < VersionsOf(d)[j].version_number

\* the condition of the claim: content is present and differs from the
\* stored content
ContentDiffers(r, old) == "content" \in r.fields /\ r.content # old.content

\* C5: an accepted update appends exactly one snapshot if the request carries
\* a content that differs from the stored content, and none otherwise.
C5_SnapshotIffContentDiffers ==
    [][\A p \in Procs :
         Accepts(p) =>
            Len(document_versions') - Len(document_versions) =
                IF ContentDiffers(req[p], document[p]) THEN 1 ELSE 0]_vars

\* process p, past its permission check, executes the UPDATE statement
Writes(p) == pc[p] = "put_update" /\ pc'[p] # "put_update"

\* C6: an update by a permitted editor that carries isPublic = true alone, on
\* a private document, is accepted, raises the version by 1 and leaves the
\* ledger of the document as it was.
C6_PublishOnlyUpdate ==
    [][\A p \in Procs, id \in DocIds :
            (/\ Writes(p) /\ req[p].id = id
             /\ req[p].fields = {"isPublic"} /\ req[p].isPublic
             /\ DocExists(id) /\ ~SingleDoc(id).is_public)
            => /\ resp'.status = 200
               /\ DocExists(id)'
               /\ SingleDoc(id)'.version = SingleDoc(id).version + 1
               /\ VersionsOf(id)' = VersionsOf(id)]_vars

\* C7: the UPDATE of a permitted editor stores the requested value of every
\* field the request carries and keeps the stored value of every other
\* field; a request that carries isPublic = b leaves is_public = b.
C7_PartialUpdate ==
    [][\A p \in Procs, id \in DocIds, r \in UpdateBodies :
            (/\ Writes(p) /\ req[p].id = id /\ DocExists(id)
             /\ req[p] = [r EXCEPT !.op = "update", !.user = req[p].user, !.id = id])
            => /\ DocExists(id)'
               /\ SingleDoc(id)'.title =
                    IF "title" \in r.fields THEN r.title ELSE SingleDoc(id).title
               /\ SingleDoc(id)'.content =
                    IF "content" \in r.fields THEN r.content ELSE SingleDoc(id).content
               /\ SingleDoc(id)'.is_public =
                    IF "isPublic" \in r.fields THEN r.isPublic ELSE SingleDoc(id).is_public]_vars

\* canView without the public branch, canEdit (spec 4.1), on the current rows
HoldsShare(u, id) == ShareRows(id, u) # {}

CanEdit(u, id) ==
    \/ SingleDoc(id).author_id = u
    \/ \E s \in ShareRows(id, u) : s.permission = "edit"

\* C8: a read-by-id of a private document by a caller who is neither its
\* author nor the holder of a share is answered 403 (401 when the caller is
\* anonymous) and never with the document.
C8_PrivateReadDenied ==
    [][(resp'.op = "get" /\ DocExists(resp'.id)) =>
         LET d == SingleDoc(resp'.id)
             u == resp'.user
         IN (~d.is_public /\ u # d.author_id /\ ~HoldsShare(u, d.id)) =>
                /\ resp'.status = IF u = Anon THEN 401 ELSE 403
                /\ resp'.body # "document"]_vars

\* a user was refused a private document on which somebody else holds a share
C8_Witness ==
    /\ resp.op = "get" /\ resp.status = 403 /\ resp.body = "error"
    /\ DocExists(resp.id)
    /\ ~SingleDoc(resp.id).is_public
    /\ SingleDoc(resp.id).author_id # resp.user
    /\ ~HoldsShare(resp.user, resp.id)
    /\ \E s \in document_shares : s.document_id = resp.id

\* C9: a well-formed update of an existing document is accepted if and only
\* if the caller is its author or holds an edit share; any other caller is
\* answered 403 and the store is not changed.
C9_UpdateIffCanEdit ==
    [][(resp'.op = "update" /\ resp'.status # 400 /\ DocExists(resp'.id)) =>
         IF CanEdit(resp'.user, resp'.id)
         THEN resp'.status = 200
         ELSE resp'.status = 403 /\ store' = store]_vars

OwnerOps == {"delete", "share", "shares", "revoke"}

PastOwnerCheck == {"delete_row", "share_user", "share_upsert", "shares_select",
                   "revoke_delete"}

\* C10: a well-formed delete, share, list-shares or revoke by a caller who is
\* not the author of the document is answered 403 and changes nothing,
\* whatever share the caller holds; only the author's request gets past the
\* ownership check.
C10_OwnerOnly ==
    [][/\ (/\ resp'.op \in OwnerOps /\ resp'.status # 400
           /\ DocExists(resp'.id)
           /\ SingleDoc(resp'.id).author_id # resp'.user)
          => (resp'.status = 403 /\ store' = store)
       /\ \A p \in Procs :
            pc'[p] \in PastOwnerCheck => document'[p].author_id = req'[p].user]_vars

\* the holder of an edit share was refused the deletion of the document
C10_Witness ==
    /\ resp.op = "delete" /\ resp.status = 403
    /\ DocExists(resp.id)
    /\ \E s \in ShareRows(resp.id, resp.user) : s.permission = "edit"

\* C11: a share request of the author for a registered user on an existing
\* document succeeds whether or not the user already holds a share, and
\* leaves exactly one row for the pair, with the requested permission; no
\* two share rows ever carry the same (document_id, user_id).
C11_ShareTwiceSucceeds ==
    [][/\ \A p \in Procs, id \in DocIds, u \in Users :
            (/\ pc[p] = "share_upsert" /\ pc'[p] = "idle"
             /\ req[p].id = id /\ req[p].userId = u /\ DocExists(id))
            => /\ resp'.status = 200
               /\ Cardinality(ShareRows(id, u)') = 1
               /\ \A s \in ShareRows(id, u)' : s.permission = req[p].permission
       /\ \A s, t \in document_shares' :
            (s.document_id = t.document_id /\ s.user_id = t.user_id) => s = t]_vars

\* C12: the DELETE statement of a revoke is answered 200 whether or not it
\* finds a row; when the user holds no share the share table is unchanged,
\* and after it the user holds none (so a second revoke changes nothing).
C12_RevokeIdempotent ==
    [][\A p \in Procs, id \in DocIds, u \in Users :
            (/\ pc[p] = "revoke_delete" /\ pc'[p] = "idle"
             /\ req[p].id = id /\ req[p].userId = u)
            => /\ resp'.status = 200
               /\ ShareRows(id, u) = {} => document_shares' = document_shares
               /\ ShareRows(id, u)' = {}]_vars

\* the author's revoke of a share nobody held was answered 200
C12_Witness ==
    /\ resp.op = "revoke" /\ resp.status = 200 /\ resp.removed = 0
    /\ DocExists(resp.id)

\* C13: every share row and every snapshot refers to a document that
\* exists, in every state, whatever requests overlap a delete.
C13_NoOrphanRows ==
    /\ \A s \in document_shares : DocExists(s.document_id)
    /\ \A i \in 1..Len(document_versions) : DocExists(document_versions[i].document_id)

\* a share or the initial snapshot of a create was written after a delete
\* that overlapped the request had removed the document
C13_Witness ==
    /\ ~DocExists(resp.id)
    /\ \/ resp.op = "share" /\ resp.status = 500
       \/ resp.op = "create" /\ resp.status = 201

\* C14: a read-by-id answered with the document carries the caller's share
\* permission when the caller is not the author and holds a share, on a
\* private and on a public document alike, and carries none for the author.
C14_ReadCarriesPermission ==
    [][(resp'.op = "get" /\ resp'.status = 200 /\ DocExists(resp'.id)) =>
         LET d == SingleDoc(resp'.id)
             u == resp'.user
         IN /\ (u # d.author_id /\ HoldsShare(u, d.id))
                => resp'.userPermission = SinglePermission(d.id, u)
            /\ u = d.author_id => resp'.userPermission = ""]_vars

Range(f) == {f[i] : i \in 1..Len(f)}

\* C15: a list answered with documents holds exactly the documents that the
\* caller authored or holds a share on, an authored document without any
\* share row included.
C15_ListIsAuthoredOrShared ==
    [][(resp'.op = "list" /\ resp'.status = 200) =>
         Range(resp'.ids) =
            {i \in DocIds : DocExists(i) /\ (SingleDoc(i).author_id = resp'.user
                                              \/ HoldsShare(resp'.user, i))}]_vars

\* canView (spec 4.1) on the current rows
CanView(u, id) ==
    \/ SingleDoc(id).is_public
    \/ SingleDoc(id).author_id = u
    \/ HoldsShare(u, id)

\* process p passes the access check of list-versions in this step
VersionsGranted(p) == pc[p] \in {"idle", "versions_share"} /\ pc'[p] = "versions_select"

\* the read-by-id half of C16: the document is returned exactly when canView
ReadFollowsCanView ==
    (resp'.op = "get" /\ DocExists(resp'.id)) =>
        (resp'.status = 200 <=> CanView(resp'.user, resp'.id))

\* C16 (as claimed): for every caller, anonymous callers included, the access
\* check of list-versions grants exactly when a read-by-id of the document
\* by the same caller would return it (canView).
C16_VersionsSameRuleAsRead ==
    [][/\ ReadFollowsCanView
       /\ \A p \in Procs, id \in DocIds :
            (VersionsGranted(p) /\ req'[p].id = id /\ DocExists(id))
                => CanView(req'[p].user, id)
       /\ (resp'.op = "versions" /\ resp'.status \in {401, 403} /\ DocExists(resp'.id))
            => ~CanView(resp'.user, resp'.id)]_vars

\* C16 (amended): for every authenticated caller the access check of
\* list-versions grants exactly when a read-by-id of the document by the
\* same caller would return it; an anonymous caller is refused with 401.
C16_VersionsSameRuleWhenAuthenticated ==
    [][/\ ReadFollowsCanView
       /\ \A p \in Procs, id \in DocIds :
            (VersionsGranted(p) /\ req'[p].id = id /\ DocExists(id))
                => (req'[p].user # Anon /\ CanView(req'[p].user, id))
       /\ (resp'.op = "versions" /\ resp'.status \in {401, 403} /\ DocExists(resp'.id))
            => IF resp'.user = Anon THEN resp'.status = 401
               ELSE resp'.status = 403 /\ ~CanView(resp'.user, resp'.id)]_vars

\* the holder of a share, not the author, was given the version list of a
\* private document
C16_Witness ==
    /\ resp.op = "versions" /\ resp.status = 200
    /\ DocExists(resp.id)
    /\ ~SingleDoc(resp.id).is_public
    /\ SingleDoc(resp.id).author_id # resp.user
    /\ HoldsShare(resp.user, resp.id)

\* String.prototype.includes on the lower-cased texts
Includes(t, q) ==
    \E i \in 0..(Len(t) - Len(q)) :
        SubSeq(toLowerCase(t), i + 1, i + Len(q)) = toLowerCase(q)

\* document i satisfies canView for u and contains q in title or content
Matches(i, u, q) ==
    /\ CanView(u, i)
    /\ \/ Includes(Chars(SingleDoc(i).title), Chars(q))
       \/ Includes(Chars(SingleDoc(i).content), Chars(q))

\* C17: every document of a search result satisfies canView for the caller
\* and contains the query, case-insensitively, in its title or its content.
C17_SearchResultsViewableAndMatching ==
    [][(resp'.op = "search" /\ resp'.status = 200) =>
         \A i \in Range(resp'.ids) : DocExists(i) /\ Matches(i, resp'.user, resp'.q)]_vars

\* C18: a search whose query is absent or shorter than 2 characters is
\* answered 200 with the empty list in the step it arrives, the store is
\* neither read (the select is never awaited) nor written.
C18_ShortQueryTouchesNothing ==
    [][/\ \A p \in Procs :
            pc'[p] = "search_select" => Len(Chars(req'[p].q)) >= 2
       /\ (resp'.op = "search" /\ Len(Chars(resp'.q)) < 2)
            => /\ resp'.status = 200 /\ resp'.ids = <<>>
               /\ store' = store]_vars

\* a one-character query that a document the caller may view contains was
\* answered with the empty list
C18_Witness ==
    /\ resp.op = "search" /\ resp.q = "a" /\ resp.status = 200 /\ resp.ids = <<>>
    /\ \E d \in documents : Matches(d.id, resp.user, resp.q)

\* the position of document i in the order by updated_at descending
Position(i) == CHOOSE n \in 1..Len(recency) : recency[n] = i

\* C19: the result of a search with a query of 2 or more characters holds
\* no document twice, holds at most 20 entries, is ordered by updated_at
\* descending, and holds 20 entries when 20 or more documents match.
C19_ResultUniqueCappedOrdered ==
    [][(resp'.op = "search" /\ resp'.status = 200 /\ Len(Chars(resp'.q)) >= 2) =>
         LET ids == resp'.ids
         IN /\ \A m, n \in 1..Len(ids) : m < n => ids[m] # ids[n]
            /\ Len(ids) <= 20
            /\ \A m, n \in 1..Len(ids) : m < n => Position(ids[m]) < Position(ids[n])
            /\ Cardinality({d \in documents : Matches(d.id, resp'.user, resp'.q)}) >= 20
                 => Len(ids) = 20]_vars

\* more than 20 documents matched, the caller holding a share on some of
\* them, and 20 were returned
C19_Witness ==
    /\ resp.op = "search" /\ resp.status = 200 /\ Len(resp.ids) = 20
    /\ Cardinality({d \in documents : Matches(d.id, resp.user, resp.q)}) > 20
    /\ \E i \in Range(resp.ids) :
         Cardinality({s \in document_shares : s.document_id = i}) > 1

\* C20: a registration with an address that is registered when the request
\* is answered gets 400 'User already exists' and adds no user row, also
\* when another registration of the address ran between its check and its
\* insert; no two user rows ever carry the same address.
C20_DuplicateRegistrationConflicts ==
    [][/\ (/\ resp'.op = "register" /\ resp'.email # NoEmail
           /\ \E w \in users : w.email = resp'.email)
          => /\ resp'.status = 400 /\ resp'.error = "User already exists"
             /\ users' = users
       /\ \A v, w \in users' : v.email = w.email => v = w]_vars

\* the ledger holds the initial snapshot of document id with this title and
\* content
InitialSnapshot(id, t, c) ==
    \E i \in 1..Len(document_versions) :
        /\ document_versions[i].document_id = id
        /\ document_versions[i].version_number = 1
        /\ document_versions[i].change_summary = "Initial version"
        /\ document_versions[i].title = t
        /\ document_versions[i].content = c

\* C24: the row a create inserts carries the caller as author_id; when a
\* create is answered 201 the ledger holds the snapshot numbered 1,
\* 'Initial version', with the title and content of the request; and every
\* existing document whose create has completed has that snapshot.
C24_CreateWritesRowAndSnapshot ==
    [][/\ \A p \in Procs, id \in DocIds :
            (pc[p] = "idle" /\ pc'[p] = "create_version" /\ req'[p].id = id)
                => /\ DocExists(id)'
                   /\ SingleDoc(id)'.author_id = req'[p].user
       /\ \A p \in Procs, id \in DocIds, t \in Titles, c \in Contents :
            (/\ pc[p] = "create_version" /\ pc'[p] = "idle"
             /\ req[p].id = id /\ req[p].title = t /\ req[p].content = c)
                => /\ resp'.status = 201
                   /\ InitialSnapshot(id, t, c)'
       /\ \A d \in documents' :
            (\A p \in Procs : ~(pc'[p] = "create_version" /\ req'[p].id = d.id))
                => \E t \in Titles, c \in Contents : InitialSnapshot(d.id, t, c)']_vars

\* C26: no share row has user_id equal to the author_id of its document.
C26_NoShareWithAuthor ==
    \A s \in document_shares :
        DocExists(s.document_id) => s.user_id # SingleDoc(s.document_id).author_id

\* the snapshot of document d with the highest version_number
NewestSnapshot(d) ==
    LET vs == VersionsOf(d)
    IN vs[CHOOSE i \in 1..Len(vs) : \A j \in 1..Len(vs) :
                vs[j].version_number <= vs[i].version_number]

\* C28: when no request is running and the update requests on a document
\* did not overlap, the content of the snapshot with the highest
\* version_number equals the content stored in the document row.
C28_NewestSnapshotIsCurrentContent ==
    \A d \in DocIds :
        (DocExists(d) /\ AllIdle /\ ~overlapped[d]) =>
            /\ Len(VersionsOf(d)) > 0
            /\ NewestSnapshot(d).content = SingleDoc(d).content

\* C25: an update is applied to a document only while its caller is the
\* author or holds an edit share, and a private document is returned only
\* to its author or to a caller who holds a share: after a revoke has
\* completed neither happens for the revoked user, whenever the request
\* started.
C25_RevokedUserNeverWritesOrReads ==
    [][/\ \A p \in Procs, id \in DocIds :
            (/\ pc[p] \in {"put_update", "put_version"} /\ pc'[p] # pc[p]
             /\ req[p].id = id /\ DocExists(id)
             /\ <<documents, document_versions>>' # <<documents, document_versions>>)
                => CanEdit(req[p].user, id)
       /\ (/\ resp'.op = "get" /\ resp'.status = 200 /\ DocExists(resp'.id)
           /\ ~SingleDoc(resp'.id).is_public
           /\ SingleDoc(resp'.id).author_id # resp'.user)
                => HoldsShare(resp'.user, resp'.id)]_vars

MutatingOps == {"create", "update", "delete", "share", "revoke"}

\* C29: a create, update, delete, share or revoke answered 400, 403 or 404
\* has written nothing: the answering step leaves the tables as they are
\* and no earlier statement of the request wrote.
C29_RefusedRequestWritesNothing ==
    [][(resp'.op \in MutatingOps /\ resp'.status \in {400, 403, 404}) =>
         /\ store' = store
         /\ \A p \in Procs :
              (pc[p] # "idle" /\ pc'[p] = "idle") => wrote[p] = NoWrote]_vars

\* a share naming an unknown address was answered 404 after two statements,
\* on a document that somebody holds a share on
C29_Witness ==
    /\ resp.op = "share" /\ resp.status = 404 /\ resp.error = "User not found"
    /\ DocExists(resp.id)
    /\ \E s \in document_shares : s.document_id = resp.id

\* the one refusal of a login: status 401 and { error: 'Invalid credentials' }
Refusal(e) == Reply([NoReq EXCEPT !.op = "login", !.email = e], 401, "Invalid credentials")

\* C21: a well-formed login is let through only for a registered address
\* with its password; every other well-formed login, unknown address or
\* wrong password alike, gets the same answer, 401 with the same body.
C21_LoginRefusalsIdentical ==
    [][/\ \A p \in Procs :
            (pc[p] = "idle" /\ pc'[p] = "login_update") =>
                \E w \in users : /\ w.email = req'[p].email
                                  /\ bcrypt_compare(req'[p].password, w.password)
       /\ resp'.op = "login" =>
            \/ resp'.status = 200
            \/ resp' = Reply([NoReq EXCEPT !.op = "login", !.email = resp'.email],
                             400, "Invalid input")
            \/ resp' = Refusal(resp'.email)]_vars

\* a login with a registered address and a wrong password was refused
C21_Witness ==
    /\ resp.op = "login" /\ resp.status = 401
    /\ \E w \in users : w.email = resp.email

\* C22: forgot-password always answers 200 with the one message, whether
\* the address is a user's or not and whether or not the token was stored
\* and the mail was sent.
C22_ForgotAnswerIdentical ==
    [][resp'.op = "forgot" =>
         resp' = ReplyBody([NoReq EXCEPT !.op = "forgot", !.email = resp'.email],
                           "message", "")]_vars

\* C23: no reset token changes a password twice; a reset is let through
\* only before the token's expiry and while its row is stored; a refused
\* reset is answered 400 and leaves the users as they are.
C23_ResetTokenSingleUse ==
    [][/\ \A i, j \in 1..Len(changed') : changed'[i] = changed'[j] => i = j
       /\ \A p \in Procs :
            (pc[p] = "idle" /\ pc'[p] = "reset_update") =>
                /\ now < req'[p].token[2] + ResetLifetime
                /\ \E k \in 1..Len(password_resets) :
                        /\ password_resets[k].token = req'[p].token
                        /\ password_resets[k].expires_at >= now
       /\ (resp'.op = "reset" /\ resp'.status # 200) =>
            /\ resp'.status = 400
            /\ resp'.error \in {"Invalid input", "Invalid or expired reset token"}
            /\ users' = users]_vars

\* C30: the browser of a logged-in user that opens a private document the
\* user authors or holds a share on receives the document and keeps its
\* session; the session is dropped only on a 401 to a request that carried
\* the user's token.
C30_ViewKeepsSession ==
    [][/\ (/\ resp'.client /\ resp'.op = "get" /\ session # Anon
           /\ DocExists(resp'.id) /\ ~SingleDoc(resp'.id).is_public
           /\ \/ SingleDoc(resp'.id).author_id = session
              \/ HoldsShare(session, resp'.id))
            => /\ resp'.status = 200 /\ resp'.body = "document"
               /\ session' = session
       /\ (session # Anon /\ session' = Anon)
            => resp'.client /\ resp'.status = 401 /\ resp'.user = session]_vars

====
